---- MODULE Spec2Model ----
(***************************************************************************)
(* A model of the SNKRDUNK card search tool (src/snd.py): the response     *)
(* shape extractor, the card id extractor, the price walker, the           *)
(* multi-endpoint search, the script run of the page and the fetching      *)
(* operations, those of the scraper (src/scraper.py) included.             *)
(*                                                                         *)
(* JSON values as Python's json module decodes them are tagged records:    *)
(*   None  [t |-> "null"]          bool  [t |-> "bool", b |-> BOOLEAN]     *)
(*   int   [t |-> "int", n |-> Int]   float [t |-> "float", f |-> Float]   *)
(*   str   [t |-> "str", s |-> sequence of one-character strings]          *)
(*   list  [t |-> "list", xs |-> sequence of values]                       *)
(*   dict  [t |-> "dict", kv |-> sequence of <<key, value>>, keys unique,  *)
(*          in insertion order; a key is a sequence of characters]         *)
(***************************************************************************)
EXTENDS Integers, Sequences, FiniteSets, TLC

VARIABLES
    pc,             \* where the modelled call stands: "start", "get", ..., "done"
    response_data,  \* extract_cards_from_response: its argument
    cards,          \* extract_cards_from_response: what it returned
    card_item,      \* extract_card_id: its argument
    extracted_id,   \* extract_card_id: how the call ended
    data,           \* extract_price_info: its argument
    price_info,     \* extract_price_info: how the call ended
    keyword,        \* search_trading_cards: its argument
    config_idx,     \* search_trading_cards: the endpoint the loop is at
    errors,         \* search_trading_cards: the errors collected so far
    response,       \* get_json: r, the response of requests.get
    http_calls,     \* the GET requests sent so far, with how each get_json ended
    search_result,  \* search_trading_cards: how the call ended
    run_pc,         \* the script of snd.py: where the current run stands
    session_state,  \* st.session_state['selected_card_id'], Unset when not in it
    widgets,        \* what the widgets return in the current run
    rendered,       \* the buttons the latest run has put on the page
    run_log,        \* the fetches and extractions of the current run, in order
    run_end,        \* how the latest run ended: "none" before the first, "running"
    operation,      \* a fetching operation called on its own
    network,        \* what the network does to the GET of that operation
    outcome         \* how that operation ended

cardsVars == <<response_data, cards>>

idVars == <<card_item, extracted_id>>

priceVars == <<data, price_info>>

searchVars == <<keyword, config_idx, errors, response, http_calls, search_result>>

runVars == <<run_pc, session_state, widgets, rendered, run_log, run_end>>

fetchVars == <<operation, network, outcome>>

vars == <<pc, cardsVars, idVars, priceVars, searchVars, runVars, fetchVars>>

\* No search is under way.
NoSearch ==
    /\ keyword = [t |-> "unset"]
    /\ config_idx = 0
    /\ errors = <<>>
    /\ response = [t |-> "unset"]
    /\ http_calls = <<>>
    /\ search_result = [t |-> "unset"]

\* The value of a variable no call has set yet.
Unset == [t |-> "unset"]

\* No script run has started.
NoRun ==
    /\ run_pc = "idle"
    /\ session_state = Unset
    /\ widgets = Unset
    /\ rendered = {}
    /\ run_log = <<>>
    /\ run_end = "none"

\* No fetching operation is called on its own.
NoFetch ==
    /\ operation = Unset
    /\ network = Unset
    /\ outcome = Unset

(***************************************************************************)
(* JSON values                                                             *)
(***************************************************************************)
JNull == [t |-> "null"]

JBool(b) == [t |-> "bool", b |-> b]

JInt(n) == [t |-> "int", n |-> n]

JFloat(f) == [t |-> "float", f |-> f]

JStr(s) == [t |-> "str", s |-> s]

JList(xs) == [t |-> "list", xs |-> xs]

JDict(kv) == [t |-> "dict", kv |-> kv]

\* isinstance(v, dict), isinstance(v, list)
IsDict(v) == v.t = "dict"

IsList(v) == v.t = "list"

\* key in d, for a dict d
HasKey(d, key) == \E i \in 1..Len(d.kv) : d.kv[i][1] = key

\* d[key], for a dict d that has the key
GetItem(d, key) == d.kv[CHOOSE i \in 1..Len(d.kv) : d.kv[i][1] = key][2]

(***************************************************************************)
(* Key names the code spells out                                           *)
(***************************************************************************)
K_items == <<"i", "t", "e", "m", "s">>

K_list == <<"l", "i", "s", "t">>

K_data == <<"d", "a", "t", "a">>

K_results == <<"r", "e", "s", "u", "l", "t", "s">>

K_cards == <<"c", "a", "r", "d", "s">>

K_products == <<"p", "r", "o", "d", "u", "c", "t", "s">>

K_name == <<"n", "a", "m", "e">>

K_id == <<"i", "d">>

K_cardId == <<"c", "a", "r", "d", "I", "d">>

K_tradingCardId == <<"t", "r", "a", "d", "i", "n", "g", "C", "a", "r", "d", "I", "d">>

K_productId == <<"p", "r", "o", "d", "u", "c", "t", "I", "d">>

K_item_id == <<"i", "t", "e", "m", "_", "i", "d">>

K_price == <<"p", "r", "i", "c", "e">>

K_amount == <<"a", "m", "o", "u", "n", "t">>

K_value == <<"v", "a", "l", "u", "e">>

K_minPrice == <<"m", "i", "n", "P", "r", "i", "c", "e">>

K_AMOUNT == <<"A", "M", "O", "U", "N", "T">>

K_streetwears == <<"s", "t", "r", "e", "e", "t", "w", "e", "a", "r", "s">>

(***************************************************************************)
(* Strings                                                                 *)
(***************************************************************************)
\* sub in s, for strings
Contains(s, sub) ==
    \E i \in 0..(Len(s) - Len(sub)) : SubSeq(s, i + 1, i + Len(sub)) = sub

\* sep.join(parts)
RECURSIVE Join(_, _)
Join(parts, sep) ==
    IF Len(parts) = 0 THEN <<>>
    ELSE IF Len(parts) = 1 THEN parts[1]
    ELSE parts[1] \o sep \o Join(Tail(parts), sep)

DigitChars == <<"0", "1", "2", "3", "4", "5", "6", "7", "8", "9">>

RECURSIVE NatToStr(_)
NatToStr(n) ==
    IF n < 10 THEN <<DigitChars[n + 1]>>
    ELSE NatToStr(n \div 10) \o <<DigitChars[(n % 10) + 1]>>

\* str(n), for an int n
IntToStr(n) == IF n < 0 THEN <<"-">> \o NatToStr(-n) ELSE NatToStr(n)

(***************************************************************************)
(* Floats.  Python's float is IEEE-754 binary64: 53 significant bits,      *)
(* round to nearest, ties to even, overflow to inf.  TLC's integers have   *)
(* 32 bits, so the same arithmetic is modelled at FloatPrec significant    *)
(* bits over the integers: a float is its integer value, every integer    *)
(* below 2^FloatPrec is a float, above that the floats are FloatPrec-bit   *)
(* multiples of a power of two up to FloatMax, and FInf stands for inf.    *)
(***************************************************************************)
FloatPrec == 11

FloatMaxExp == 4

RECURSIVE Pow2(_)
Pow2(n) == IF n = 0 THEN 1 ELSE 2 * Pow2(n - 1)

\* sys.float_info.max of the modelled format
FloatMax == (Pow2(FloatPrec) - 1) * Pow2(FloatMaxExp)

FInf == FloatMax + 1

\* The spacing of the floats around num/den.
RECURSIVE Spacing(_, _, _)
Spacing(num, den, step) ==
    IF num < Pow2(FloatPrec) * step * den THEN step
    ELSE Spacing(num, den, 2 * step)

\* num/den (num >= 0, den > 0) rounded to the nearest float, ties to even;
\* FInf when that is beyond FloatMax.
RoundToFloat(num, den) ==
    LET step == Spacing(num, den, 1)
        unit == step * den
        m == num \div unit
        r == num - m * unit
        up == (2 * r > unit) \/ (2 * r = unit /\ m % 2 = 1)
        v == (IF up THEN m + 1 ELSE m) * step
    IN  IF v > FloatMax THEN FInf ELSE v

\* float(n), for an int n > 0: OverflowError when n rounds beyond FloatMax.
IntToFloat(n) ==
    IF RoundToFloat(n, 1) = FInf THEN [kind |-> "raise", exc |-> "OverflowError"]
    ELSE [kind |-> "return", value |-> RoundToFloat(n, 1)]

\* a + b, for floats a, b >= 0
FloatAdd(a, b) == IF a = FInf \/ b = FInf THEN FInf ELSE RoundToFloat(a + b, 1)

\* a / n, for a float a >= 0 and an int n > 0 that is exactly a float
FloatDiv(a, n) == IF a = FInf THEN FInf ELSE RoundToFloat(a, n)

\* repr(f), for a float f >= 0 with an integer value
FloatToStr(f) == IF f = FInf THEN <<"i", "n", "f">> ELSE IntToStr(f) \o <<".", "0">>

(***************************************************************************)
(* extract_cards_from_response (src/snd.py 121-140)                        *)
(***************************************************************************)
\* A probe order that looks at "data" first.
TopKeys_DataFirst == <<K_data, K_items, K_list, K_results, K_cards, K_products>>

\* for key in ["items", "list", "data", "results", "cards", "products"]
TopKeys == <<K_items, K_list, K_data, K_results, K_cards, K_products>>

\* A nested probe that reuses the top-level key list.
NestedKeys_SameAsTop == <<K_items, K_list, K_data, K_results, K_cards, K_products>>

\* for key in ["items", "list", "results", "cards"]
NestedKeys == <<K_items, K_list, K_results, K_cards>>

\* The probe loop from position i on: the value of the first key of keys that
\* is in d and holds a list; "found" says whether the loop returned.
RECURSIVE ProbeKeys(_, _, _)
ProbeKeys(d, keys, i) ==
    IF i > Len(keys) THEN [found |-> FALSE, value |-> JList(<<>>)]
    ELSE IF HasKey(d, keys[i]) /\ IsList(GetItem(d, keys[i]))
         THEN [found |-> TRUE, value |-> GetItem(d, keys[i])]
         ELSE ProbeKeys(d, keys, i + 1)

\* An extractor that hands back a root that is itself a list.
extract_cards_ListRootPassedThrough(root) ==
    IF IsList(root) THEN root
    ELSE IF IsDict(root)
    THEN LET top == ProbeKeys(root, TopKeys, 1)
         IN  IF top.found THEN top.value
             ELSE IF HasKey(root, K_data) /\ IsDict(GetItem(root, K_data))
                  THEN ProbeKeys(GetItem(root, K_data), NestedKeys, 1).value
                  ELSE JList(<<>>)
    ELSE JList(<<>>)

extract_cards_from_response(root) ==
    IF IsDict(root)
    THEN LET top == ProbeKeys(root, TopKeys, 1)
         IN  IF top.found THEN top.value
             ELSE IF HasKey(root, K_data) /\ IsDict(GetItem(root, K_data))
                  THEN ProbeKeys(GetItem(root, K_data), NestedKeys, 1).value
                  ELSE JList(<<>>)
    ELSE JList(<<>>)

(***************************************************************************)
(* extract_card_id (src/snd.py 143-154)                                    *)
(***************************************************************************)
\* repr(v); str(v) for everything but a str.  Strings hold no quote,
\* backslash or control character, so repr puts them between single quotes.
RECURSIVE PyRepr(_)
PyRepr(v) ==
    CASE v.t = "null" -> <<"N", "o", "n", "e">>
      [] v.t = "bool" -> IF v.b THEN <<"T", "r", "u", "e">> ELSE <<"F", "a", "l", "s", "e">>
      [] v.t = "int" -> IntToStr(v.n)
      [] v.t = "float" -> FloatToStr(v.f)
      [] v.t = "str" -> <<"'">> \o v.s \o <<"'">>
      [] v.t = "list" ->
            <<"[">> \o Join([i \in 1..Len(v.xs) |-> PyRepr(v.xs[i])], <<",", " ">>) \o <<"]">>
      [] v.t = "dict" ->
            <<"{">>
            \o Join([i \in 1..Len(v.kv) |->
                        <<"'">> \o v.kv[i][1] \o <<"'", ":", " ">> \o PyRepr(v.kv[i][2])],
                    <<",", " ">>)
            \o <<"}">>

\* str(v)
PyStr(v) == IF v.t = "str" THEN v.s ELSE PyRepr(v)

\* id_fields = ["id", "cardId", "tradingCardId", "productId", "item_id"]
id_fields == <<K_id, K_cardId, K_tradingCardId, K_productId, K_item_id>>

Returned(v) == [kind |-> "return", value |-> v]

Raised(exc) == [kind |-> "raise", exc |-> exc]

\* field in card_item: a key of a dict, a substring of a str, an element of
\* a list; None, a bool and a number are not iterable.
FieldIn(field, item) ==
    CASE item.t = "dict" -> Returned(HasKey(item, field))
      [] item.t = "str" -> Returned(Contains(item.s, field))
      [] item.t = "list" -> Returned(\E i \in 1..Len(item.xs) : item.xs[i] = JStr(field))
      [] OTHER -> Raised("TypeError")

\* card_item[field]: a str and a list take integer indices only.
Subscript(item, field) ==
    IF item.t = "dict" THEN Returned(GetItem(item, field)) ELSE Raised("TypeError")

\* A probe that passes over a field whose value is None.
ProbeIdFields_SkipNone(item, i) ==
    LET present == {k \in i..Len(id_fields) :
                      HasKey(item, id_fields[k]) /\ GetItem(item, id_fields[k]) # JNull}
    IN  IF item.t # "dict" THEN Raised("TypeError")
        ELSE IF present = {} THEN Returned(JNull)
        ELSE Returned(JStr(PyStr(GetItem(item,
                id_fields[CHOOSE k \in present : \A m \in present : k <= m]))))

\* The loop over id_fields from position i on.
RECURSIVE ProbeIdFields(_, _)
ProbeIdFields(item, i) ==
    IF i > Len(id_fields) THEN Returned(JNull)
    ELSE LET test == FieldIn(id_fields[i], item)
         IN  IF test.kind = "raise" THEN test
             ELSE IF test.value
                  THEN LET got == Subscript(item, id_fields[i])
                       IN  IF got.kind = "raise" THEN got
                           ELSE Returned(JStr(PyStr(got.value)))
                  ELSE ProbeIdFields(item, i + 1)

extract_card_id(item) == ProbeIdFields(item, 1)

(***************************************************************************)
(* extract_price_info (src/snd.py 160-201)                                 *)
(***************************************************************************)
UpperChars ==
    <<"A", "B", "C", "D", "E", "F", "G", "H", "I", "J", "K", "L", "M",
      "N", "O", "P", "Q", "R", "S", "T", "U", "V", "W", "X", "Y", "Z">>

LowerChars ==
    <<"a", "b", "c", "d", "e", "f", "g", "h", "i", "j", "k", "l", "m",
      "n", "o", "p", "q", "r", "s", "t", "u", "v", "w", "x", "y", "z">>

LowerChar(c) ==
    IF \E i \in 1..Len(UpperChars) : UpperChars[i] = c
    THEN LowerChars[CHOOSE i \in 1..Len(UpperChars) : UpperChars[i] = c]
    ELSE c

\* key.lower()
Lower(s) == [i \in 1..Len(s) |-> LowerChar(s[i])]

\* s.replace(ch, "")
RemoveChar(s, ch) == SelectSeq(s, LAMBDA c : c # ch)

IsDigit(c) == \E i \in 1..Len(DigitChars) : DigitChars[i] = c

DigitValue(c) == (CHOOSE i \in 1..Len(DigitChars) : DigitChars[i] = c) - 1

RECURSIVE DigitsToNat(_)
DigitsToNat(s) ==
    IF Len(s) = 0 THEN 0
    ELSE 10 * DigitsToNat(SubSeq(s, 1, Len(s) - 1)) + DigitValue(s[Len(s)])

AllDigits(s) == Len(s) > 0 /\ \A i \in 1..Len(s) : IsDigit(s[i])

\* float(s), for a string of digits, '-' and ASCII letters other than
\* e, f, i, n (no whitespace, '.', '+', '_', exponent, "inf" or "nan"):
\* an optional '-' and one or more digits, correctly rounded, inf when too
\* large; ValueError for anything else.
ParseFloat(s) ==
    IF AllDigits(s) THEN [kind |-> "return", value |-> RoundToFloat(DigitsToNat(s), 1)]
    ELSE IF Len(s) > 1 /\ s[1] = "-" /\ AllDigits(Tail(s))
         THEN [kind |-> "return", value |-> 0 - RoundToFloat(DigitsToNat(Tail(s)), 1)]
         ELSE [kind |-> "raise", exc |-> "ValueError"]

\* for price_key in ["price", "amount", "value"]
price_keys == <<K_price, K_amount, K_value>>

\* any(price_key in key_lower for price_key in [...])
KeyMatches(key) == \E i \in 1..Len(price_keys) : Contains(Lower(key), price_keys[i])

\* isinstance(value, (int, float)): bool is a subclass of int.
IsIntOrFloat(v) == v.t \in {"int", "float", "bool"}

\* The number value > 0 and float(value) are computed on.
NumberOf(v) ==
    CASE v.t = "int" -> v.n
      [] v.t = "float" -> v.f
      [] v.t = "bool" -> IF v.b THEN 1 ELSE 0

\* float(value), for a number value > 0
ToFloat(v) == IF v.t = "float" THEN [kind |-> "return", value |-> v.f] ELSE IntToFloat(NumberOf(v))

\* The yen sign, U+00A5, as one character.
Yen == "yen"

\* value.replace(",", "").replace(Yen, "").replace("$", "")
StripCurrency(s) == RemoveChar(RemoveChar(RemoveChar(s, ","), Yen), "$")

\* A string branch in which the failed coercion leaves the walk.
StringPrices_FailurePropagates(s) ==
    LET parsed == ParseFloat(StripCurrency(s))
    IN  IF parsed.kind = "raise" THEN parsed
        ELSE [kind |-> "return",
              value |-> IF parsed.value > 0 THEN <<parsed.value>> ELSE <<>>]

\* The elif isinstance(value, str) branch: what it appends.  The bare except
\* swallows whatever the coercion raises.
StringPrices(s) ==
    LET parsed == ParseFloat(StripCurrency(s))
    IN  [kind |-> "return",
         value |-> IF parsed.kind = "return" /\ parsed.value > 0 THEN <<parsed.value>> ELSE <<>>]

\* The body of the first loop for one key, value: what it appends to
\* all_prices, or the exception that leaves it.
RecordEntry(key, value) ==
    IF ~KeyMatches(key) THEN [kind |-> "return", value |-> <<>>]
    ELSE IF IsIntOrFloat(value) /\ NumberOf(value) > 0
         THEN LET f == ToFloat(value)
              IN  IF f.kind = "raise" THEN f ELSE [kind |-> "return", value |-> <<f.value>>]
         ELSE IF value.t = "str" THEN StringPrices(value.s)
         ELSE [kind |-> "return", value |-> <<>>]

\* for key, value in obj.items(), from entry i on; acc is all_prices.
RECURSIVE RecordLoop(_, _, _)
RecordLoop(kv, i, acc) ==
    IF i > Len(kv) THEN [kind |-> "return", value |-> acc]
    ELSE LET r == RecordEntry(kv[i][1], kv[i][2])
         IN  IF r.kind = "raise" THEN r ELSE RecordLoop(kv, i + 1, acc \o r.value)

\* walk(obj) and its loops over obj.values() and over a list, from element i
\* on; acc is all_prices before, the result holds all_prices after.
RECURSIVE walk(_, _)
RECURSIVE DescendLoop(_, _, _)
DescendLoop(xs, i, acc) ==
    IF i > Len(xs) THEN [kind |-> "return", value |-> acc]
    ELSE LET r == walk(xs[i], acc)
         IN  IF r.kind = "raise" THEN r ELSE DescendLoop(xs, i + 1, r.value)

walk(obj, acc) ==
    IF obj.t = "dict"
    THEN LET r == RecordLoop(obj.kv, 1, acc)
         IN  IF r.kind = "raise" THEN r
             ELSE DescendLoop([i \in 1..Len(obj.kv) |-> obj.kv[i][2]], 1, r.value)
    ELSE IF obj.t = "list" THEN DescendLoop(obj.xs, 1, acc)
    ELSE [kind |-> "return", value |-> acc]

\* min(all_prices), max(all_prices)
SeqMin(xs) == CHOOSE x \in {xs[i] : i \in 1..Len(xs)} : \A i \in 1..Len(xs) : x <= xs[i]

SeqMax(xs) == CHOOSE x \in {xs[i] : i \in 1..Len(xs)} : \A i \in 1..Len(xs) : x >= xs[i]

\* sum(all_prices): 0 + xs[1] + xs[2] + ..., left to right
RECURSIVE SeqSum(_)
SeqSum(xs) ==
    IF Len(xs) = 0 THEN 0
    ELSE FloatAdd(SeqSum(SubSeq(xs, 1, Len(xs) - 1)), xs[Len(xs)])

extract_price_info(root) ==
    LET walked == walk(root, <<>>)
    IN  IF walked.kind = "raise" THEN walked
        ELSE IF Len(walked.value) > 0
             THEN [kind |-> "return",
                   value |-> [lowest_price |-> JFloat(SeqMin(walked.value)),
                              highest_price |-> JFloat(SeqMax(walked.value)),
                              average_price |-> JFloat(FloatDiv(SeqSum(walked.value),
                                                                Len(walked.value))),
                              all_prices |-> walked.value]]
             ELSE [kind |-> "return",
                   value |-> [lowest_price |-> JNull, highest_price |-> JNull,
                              average_price |-> JNull, all_prices |-> <<>>]]

(***************************************************************************)
(* Responses the shape extractor is applied to                             *)
(***************************************************************************)
\* The most entries a generated mapping has.
MaxKeys == 2

RECURSIVE DescSeq(_)
DescSeq(S) ==
    IF S = {} THEN <<>>
    ELSE LET m == CHOOSE x \in S : \A y \in S : x >= y
         IN  <<m>> \o DescSeq(S \ {m})

\* The dict with keys[i] |-> f[i] for i in S, inserted in descending order of
\* i: the insertion order is the reverse of the order the code probes in.
DictOf(keys, S, f) ==
    LET order == DescSeq(S)
    IN  JDict([j \in 1..Len(order) |-> <<keys[order[j]], f[order[j]]>>])

SubsetsUpTo(S, n) == {T \in SUBSET S : Cardinality(T) <= n}

DictsOver(keys, values, n) ==
    UNION {{DictOf(keys, S, f) : f \in [S -> values]} :
             S \in SubsetsUpTo(1..Len(keys), n)}

CardA == JDict(<<<<<<"i", "d">>, JInt(1)>>>>)

CardB == JDict(<<<<K_name, JStr(<<"x">>)>>>>)

ListEmpty == JList(<<>>)

ListBA == JList(<<CardB, CardA>>)

ListA == JList(<<CardA>>)

ListNullB == JList(<<JNull, CardB>>)

\* Values under the keys of root["data"].
NestedValues == {ListA, ListNullB, JStr(<<"x">>)}

NestedDictKeys == <<K_items, K_list, K_results, K_cards, K_products, K_data>>

NestedDicts == DictsOver(NestedDictKeys, NestedValues, MaxKeys)

\* Values under the top-level keys other than "data".
TopValues == {ListEmpty, ListBA, JNull, JDict(<<<<K_items, ListA>>>>)}

OtherTopKeys == <<K_items, K_list, K_results, K_cards, K_products, K_name>>

\* d with the entry key |-> value put where the insertion order used here
\* has "data": after products, cards and results, before list and items.
WithData(d, value) ==
    LET before == SelectSeq(d.kv, LAMBDA e : e[1] \in {K_name, K_products, K_cards, K_results})
        after == SelectSeq(d.kv, LAMBDA e : e[1] \in {K_list, K_items})
    IN  JDict(before \o <<<<K_data, value>>>> \o after)

MappingRoots ==
    DictsOver(OtherTopKeys, TopValues, MaxKeys)
    \cup {WithData(d, v) : d \in DictsOver(OtherTopKeys, TopValues, MaxKeys - 1),
                           v \in TopValues \cup NestedDicts}

NonMappingRoots ==
    {JNull, JBool(TRUE), JInt(0), JStr(K_items), ListEmpty, ListBA, JList(<<JStr(K_items)>>)}

CardResponses == MappingRoots \cup NonMappingRoots

(***************************************************************************)
(* The shape extractor applied to one response                             *)
(***************************************************************************)
InitCards ==
    /\ pc = "start"
    /\ response_data \in CardResponses
    /\ cards = Unset
    /\ card_item = Unset
    /\ extracted_id = Unset
    /\ data = Unset
    /\ price_info = Unset
    /\ NoSearch
    /\ NoRun
    /\ NoFetch

CallExtractCards ==
    /\ pc = "start"
    /\ cards' = extract_cards_from_response(response_data)
    /\ pc' = "done"
    /\ UNCHANGED <<response_data, idVars, priceVars, searchVars, runVars, fetchVars>>

NextCards == CallExtractCards

SpecCards == InitCards /\ [][NextCards]_vars

(***************************************************************************)
(* get_json and search_trading_cards (src/snd.py 10-78)                    *)
(***************************************************************************)
\* page: int = 1, per_page: int = 20
DefaultPage == 1

DefaultPerPage == 20

\* endpoints, for a keyword
endpoints(kw) ==
    <<[url |-> "https://snkrdunk.com/en/v1/trading-cards",
       params |-> [keyword |-> kw, page |-> DefaultPage, perPage |-> DefaultPerPage,
                   sortType |-> "popular"]],
      [url |-> "https://snkrdunk.com/en/v1/search",
       params |-> [q |-> kw, type |-> "trading-cards", page |-> DefaultPage,
                   perPage |-> DefaultPerPage]],
      [url |-> "https://snkrdunk.com/en/v1/products/search",
       params |-> [keyword |-> kw, category |-> "trading-cards", page |-> DefaultPage,
                   limit |-> DefaultPerPage]]>>

\* What requests.get raises when no response arrives.
TransportErrors == {"ConnectionError", "Timeout"}

\* The classes the handler of search_trading_cards catches: except Exception.
\* Every exception of requests, and the JSONDecodeError of r.json(), is one.
ExceptionSubclasses == {"ConnectionError", "Timeout", "HTTPError", "JSONDecodeError"}

\* A handler that names the HTTP error only.
Catches_HTTPErrorOnly(exc) == exc = "HTTPError"

\* except Exception as e
Catches(exc) == exc \in ExceptionSubclasses

\* Status codes a response comes with.
StatusCodes == {200, 404, 500}

\* Bodies a response comes with: JSON text, as the value it decodes to, or
\* text that is not JSON.
JsonBodies == {JDict(<<<<K_items, ListA>>>>), ListBA, JNull}

Bodies == {[json |-> TRUE, value |-> v] : v \in JsonBodies} \cup {[json |-> FALSE]}

Keywords == {"Pikachu", "Detective Pikachu 098"}

\* The search starts: errors = [] and the loop is at the first endpoint.
InitSearch ==
    /\ pc = "get"
    /\ keyword \in Keywords
    /\ config_idx = 1
    /\ errors = <<>>
    /\ response = Unset
    /\ http_calls = <<>>
    /\ search_result = Unset
    /\ response_data = Unset
    /\ cards = Unset
    /\ card_item = Unset
    /\ extracted_id = Unset
    /\ data = Unset
    /\ price_info = Unset
    /\ NoRun
    /\ NoFetch

\* An exception exc leaves get_json inside the try of the loop, the GET
\* requests sent being calls: the handler appends the error and the loop goes
\* on to the next endpoint, and after the last one the function returns the
\* errors; an exception the handler does not catch leaves
\* search_trading_cards.
GetJsonRaises(exc, calls) ==
    LET config == endpoints(keyword)[config_idx]
        collected == Append(errors, [url |-> config.url, params |-> config.params,
                                     error |-> exc])
    IN  /\ http_calls' = calls
        /\ response' = Unset
        /\ IF Catches(exc)
           THEN /\ errors' = collected
                /\ IF config_idx < Len(endpoints(keyword))
                   THEN /\ config_idx' = config_idx + 1
                        /\ pc' = "get"
                        /\ UNCHANGED search_result
                   ELSE /\ pc' = "done"
                        /\ search_result' = Returned([success |-> FALSE, errors |-> collected])
                        /\ UNCHANGED config_idx
           ELSE /\ pc' = "done"
                /\ search_result' = Raised(exc)
                /\ UNCHANGED <<errors, config_idx>>

\* r = requests.get(url, headers=headers, params=params, timeout=15), and
\* no response arrives
RequestsGetFails ==
    /\ pc = "get"
    /\ \E exc \in TransportErrors :
          GetJsonRaises(exc, Append(http_calls, [url |-> endpoints(keyword)[config_idx].url,
                                                ended |-> "raised"]))
    /\ UNCHANGED <<keyword, cardsVars, idVars, priceVars, runVars, fetchVars>>

\* r = requests.get(...), and a response arrives
RequestsGetResponds ==
    /\ pc = "get"
    /\ \E status \in StatusCodes, body \in Bodies :
          response' = [status_code |-> status, body |-> body]
    /\ http_calls' = Append(http_calls,
                            [url |-> endpoints(keyword)[config_idx].url, ended |-> "pending"])
    /\ pc' = "raise_for_status"
    /\ UNCHANGED <<keyword, config_idx, errors, search_result, cardsVars, idVars, priceVars, runVars, fetchVars>>

\* r.raise_for_status(): HTTPError for a 4xx or 5xx status
RaiseForStatus ==
    /\ pc = "raise_for_status"
    /\ IF response.status_code >= 400
       THEN GetJsonRaises("HTTPError", [http_calls EXCEPT ![Len(http_calls)].ended = "raised"])
       ELSE /\ pc' = "json"
            /\ UNCHANGED <<config_idx, errors, response, http_calls, search_result>>
    /\ UNCHANGED <<keyword, cardsVars, idVars, priceVars, runVars, fetchVars>>

\* return r.json(), and in search_trading_cards
\* return {"success": True, "data": result, "endpoint": config["url"]}
DecodeJson ==
    /\ pc = "json"
    /\ IF response.body.json
       THEN /\ http_calls' = [http_calls EXCEPT ![Len(http_calls)].ended = "returned"]
            /\ search_result' =
                  Returned([success |-> TRUE, data |-> response.body.value,
                            endpoint |-> endpoints(keyword)[config_idx].url])
            /\ pc' = "done"
            /\ UNCHANGED <<config_idx, errors, response>>
       ELSE GetJsonRaises("JSONDecodeError",
                          [http_calls EXCEPT ![Len(http_calls)].ended = "raised"])
    /\ UNCHANGED <<keyword, cardsVars, idVars, priceVars, runVars, fetchVars>>

NextSearch ==
    \/ RequestsGetFails
    \/ RequestsGetResponds
    \/ RaiseForStatus
    \/ DecodeJson

SpecSearch == InitSearch /\ [][NextSearch]_vars

(***************************************************************************)
(* Claims about extract_cards_from_response                                *)
(***************************************************************************)
\* The positions in keys whose key is in d and holds a sequence.
SeqHits(d, keys) ==
    {i \in 1..Len(keys) : \E j \in 1..Len(d.kv) : d.kv[j][1] = keys[i] /\ d.kv[j][2].t = "list"}

\* The value d holds under the earliest key of keys that holds a sequence.
EarliestSeq(d, keys) ==
    LET first == CHOOSE i \in SeqHits(d, keys) : \A k \in SeqHits(d, keys) : i <= k
        j == CHOOSE j \in 1..Len(d.kv) : d.kv[j][1] = keys[first]
    IN  d.kv[j][2]

CandidateKeys == <<K_items, K_list, K_data, K_results, K_cards, K_products>>

NestedCandidateKeys == <<K_items, K_list, K_results, K_cards>>

\* root["data"] exists and is a mapping.
HasDataMapping(root) ==
    \E j \in 1..Len(root.kv) : root.kv[j][1] = K_data /\ root.kv[j][2].t = "dict"

DataMapping(root) == root.kv[CHOOSE j \in 1..Len(root.kv) : root.kv[j][1] = K_data][2]

\* C1: given a mapping in which some key of items, list, data, results,
\* cards, products holds a sequence, the extractor returns exactly the value
\* under the earliest such key in that probe order, whatever the other keys
\* hold and however long the sequences are.
C1_FirstTopLevelSequence ==
    (pc = "done" /\ response_data.t = "dict" /\ SeqHits(response_data, CandidateKeys) # {})
        => cards = EarliestSeq(response_data, CandidateKeys)

\* C1 witness: two candidate keys hold different sequences, the one earlier in
\* probe order is the shorter one and was inserted later, and it is returned.
C1_Witness ==
    /\ pc = "done"
    /\ response_data.t = "dict"
    /\ Cardinality(SeqHits(response_data, CandidateKeys)) = 2
    /\ \E j \in 1..Len(response_data.kv) :
          /\ response_data.kv[j][2].t = "list"
          /\ response_data.kv[j][2] # cards
          /\ Len(response_data.kv[j][2].xs) > Len(cards.xs)
    /\ cards = response_data.kv[2][2]

\* C2: when no top-level candidate key holds a sequence and root["data"] is a
\* mapping, the result is the value under the earliest of items, list,
\* results, cards of root["data"] that holds a sequence, and the empty
\* sequence when none does (so never what data.products or data.data holds);
\* when a top-level candidate holds a sequence the nested mapping does not
\* decide the result.
C2_NestedDataProbe ==
    (pc = "done" /\ response_data.t = "dict") =>
        IF SeqHits(response_data, CandidateKeys) # {}
        THEN cards = EarliestSeq(response_data, CandidateKeys)
        ELSE HasDataMapping(response_data) =>
                IF SeqHits(DataMapping(response_data), NestedCandidateKeys) # {}
                THEN cards = EarliestSeq(DataMapping(response_data), NestedCandidateKeys)
                ELSE cards = [t |-> "list", xs |-> <<>>]

\* C2 witness: no top-level sequence, root["data"] holds a sequence under
\* products and another under cards, and the one under cards is returned.
C2_Witness ==
    /\ pc = "done"
    /\ response_data.t = "dict"
    /\ SeqHits(response_data, CandidateKeys) = {}
    /\ HasDataMapping(response_data)
    /\ \E i, j \in 1..Len(DataMapping(response_data).kv) :
          /\ DataMapping(response_data).kv[i][1] = K_products
          /\ DataMapping(response_data).kv[i][2].t = "list"
          /\ DataMapping(response_data).kv[j][1] = K_cards
          /\ DataMapping(response_data).kv[j][2].t = "list"
          /\ DataMapping(response_data).kv[j][2] # DataMapping(response_data).kv[i][2]
          /\ cards = DataMapping(response_data).kv[j][2]

\* A value with no candidate key holding a sequence, at the top level or
\* under a mapping-valued data key.
NoCandidate(root) ==
    \/ root.t # "dict"
    \/ /\ root.t = "dict"
       /\ SeqHits(root, CandidateKeys) = {}
       /\ HasDataMapping(root) => SeqHits(DataMapping(root), NestedCandidateKeys) = {}

\* C3: for every value with no candidate key holding a sequence (a
\* non-mapping root, a root that is itself a sequence, a mapping without a
\* match) the extractor returns: its result is the empty sequence, not null.
C3_EmptyWhenNoCandidate ==
    (pc = "done" /\ NoCandidate(response_data)) => cards = [t |-> "list", xs |-> <<>>]

\* C3 witness: the root is itself a non-empty sequence and the result is empty.
C3_Witness ==
    /\ pc = "done"
    /\ response_data.t = "list"
    /\ Len(response_data.xs) > 0
    /\ cards = [t |-> "list", xs |-> <<>>]

(***************************************************************************)
(* The card id extractor applied to one item                               *)
(***************************************************************************)
IdValues ==
    {JInt(135232), JInt(-7), JStr(<<"a", "1">>), JNull, JBool(FALSE), JFloat(6),
     JList(<<JInt(1), JStr(<<"x">>)>>)}

ItemKeys == <<K_id, K_cardId, K_tradingCardId, K_productId, K_item_id, K_name>>

NonMappingItems ==
    {JNull, JBool(TRUE), JInt(5), JFloat(6), JStr(<<"x">>), JStr(<<"v", "a", "l", "i", "d">>),
     JStr(K_cardId), ListEmpty, JList(<<JStr(K_id)>>), JList(<<JStr(<<"x">>), CardA>>)}

CardItems == DictsOver(ItemKeys, IdValues, MaxKeys) \cup NonMappingItems

InitId ==
    /\ pc = "start"
    /\ card_item \in CardItems
    /\ extracted_id = Unset
    /\ response_data = Unset
    /\ cards = Unset
    /\ data = Unset
    /\ price_info = Unset
    /\ NoSearch
    /\ NoRun
    /\ NoFetch

CallExtractCardId ==
    /\ pc = "start"
    /\ extracted_id' = extract_card_id(card_item)
    /\ pc' = "done"
    /\ UNCHANGED <<card_item, cardsVars, priceVars, searchVars, runVars, fetchVars>>

NextId == CallExtractCardId

SpecId == InitId /\ [][NextId]_vars

(***************************************************************************)
(* The price walker applied to one response                                *)
(***************************************************************************)
\* An int that float() cannot hold.
HugeInt == FloatMax + Pow2(FloatMaxExp)

S_1234 == <<"1", ",", "2", "3", "4">>

S_abc == <<"a", "b", "c">>

S_dollar1000 == <<"$", "1", ",", "0", "0", "0">>

S_minus5 == <<"-", "5">>

S_yen0 == <<Yen, "0">>

PriceLeaves ==
    {JInt(-3), JInt(0), JInt(500), JInt(1366), JInt(HugeInt), JFloat(FloatMax),
     JBool(TRUE), JNull, JStr(S_1234), JStr(S_abc), JStr(S_dollar1000), JStr(S_minus5),
     JStr(S_yen0)}

\* The list of the search response {"streetwears": [{"id": 1, "minPrice":
\* "$1,000"}, {"id": 2, "minPrice": 500}]}
StreetwearList ==
    JList(<<JDict(<<<<K_id, JInt(1)>>, <<K_minPrice, JStr(S_dollar1000)>>>>),
            JDict(<<<<K_id, JInt(2)>>, <<K_minPrice, JInt(500)>>>>)>>)

PriceCompounds ==
    {StreetwearList,
     JDict(<<<<K_AMOUNT, JInt(1366)>>>>),
     JDict(<<<<K_id, JDict(<<<<K_value, JStr(S_abc)>>, <<K_price, JStr(S_1234)>>>>)>>>>),
     JList(<<JDict(<<<<K_minPrice, JInt(1366)>>>>), JDict(<<<<K_minPrice, JInt(1366)>>>>)>>),
     JList(<<JInt(500), JStr(S_1234), JList(<<JDict(<<<<K_value, JBool(FALSE)>>>>)>>)>>),
     ListEmpty}

PriceRootKeys == <<K_minPrice, K_value, K_streetwears>>

\* The ways to put m different root keys in an insertion order.
KeyOrders(m) ==
    {o \in [1..m -> 1..Len(PriceRootKeys)] : \A a, b \in 1..m : a # b => o[a] # o[b]}

OtherPriceRoots == PriceCompounds \cup {JNull, JInt(500), JStr(S_1234)}

\* data is a mapping of at most MaxKeys root keys, in any insertion order,
\* to leaves and compounds, or a value that is not a mapping.
InitPrice ==
    /\ pc = "start"
    /\ \/ \E m \in 0..MaxKeys : \E order \in KeyOrders(m) :
            \E f \in [1..m -> PriceLeaves \cup PriceCompounds] :
                data = JDict([j \in 1..m |-> <<PriceRootKeys[order[j]], f[j]>>])
       \/ data \in OtherPriceRoots
    /\ price_info = Unset
    /\ response_data = Unset
    /\ cards = Unset
    /\ card_item = Unset
    /\ extracted_id = Unset
    /\ NoSearch
    /\ NoRun
    /\ NoFetch

CallExtractPriceInfo ==
    /\ pc = "start"
    /\ price_info' = extract_price_info(data)
    /\ pc' = "done"
    /\ UNCHANGED <<data, cardsVars, idVars, searchVars, runVars, fetchVars>>

NextPrice == CallExtractPriceInfo

SpecPrice == InitPrice /\ [][NextPrice]_vars

(***************************************************************************)
(* Claims about extract_card_id                                            *)
(***************************************************************************)
\* C4: extract_card_id never raises, whatever JSON value it is given: every
\* call returns (the id string, or None when there is no id).
C4_NeverRaises == pc = "done" => extracted_id.kind = "return"

\* The call raised on a value that is not a mapping.
C4_RaisedOnNonMapping ==
    pc = "done" /\ card_item.t # "dict" /\ extracted_id.kind = "raise"

IdFieldNames == <<K_id, K_cardId, K_tradingCardId, K_productId, K_item_id>>

\* The positions in IdFieldNames whose field is a key of the mapping d.
PresentFields(d) ==
    {i \in 1..Len(IdFieldNames) : \E j \in 1..Len(d.kv) : d.kv[j][1] = IdFieldNames[i]}

FirstPresentValue(d) ==
    LET first == CHOOSE i \in PresentFields(d) : \A k \in PresentFields(d) : i <= k
        j == CHOOSE j \in 1..Len(d.kv) : d.kv[j][1] = IdFieldNames[first]
    IN  d.kv[j][2]

\* C5: given a mapping, the call returns; the result is None exactly when
\* none of id, cardId, tradingCardId, productId, item_id is a key, and
\* otherwise it is the string form of the value under the earliest of them
\* that is a key, whatever that value is.
C5_FirstPresentFieldAsString ==
    (pc = "done" /\ card_item.t = "dict") =>
        /\ extracted_id.kind = "return"
        /\ (extracted_id.value = [t |-> "null"]) <=> (PresentFields(card_item) = {})
        /\ PresentFields(card_item) # {} =>
              /\ extracted_id.value.t = "str"
              /\ extracted_id.value.s = PyStr(FirstPresentValue(card_item))

\* C5 witness: the earliest present field holds None, a later field holds a
\* number, and the result is the string "None".
C5_Witness ==
    /\ pc = "done"
    /\ card_item.t = "dict"
    /\ Cardinality(PresentFields(card_item)) = 2
    /\ FirstPresentValue(card_item) = [t |-> "null"]
    /\ extracted_id = [kind |-> "return", value |-> [t |-> "str", s |-> <<"N", "o", "n", "e">>]]

(***************************************************************************)
(* Claims about extract_price_info                                         *)
(***************************************************************************)
PriceWords == {K_price, K_amount, K_value}

\* The lowercase form of key contains price, amount or value.
IsPriceKey(key) ==
    \E w \in PriceWords : \E i \in 1..Len(key) :
        /\ i + Len(w) - 1 <= Len(key)
        /\ \A j \in 1..Len(w) : LowerChar(key[i + j - 1]) = w[j]

\* The values under price keys in the mapping nodes of v at any depth,
\* reached through any keys and any sequence elements.
RECURSIVE ValuesUnderPriceKeys(_)
ValuesUnderPriceKeys(v) ==
    IF v.t = "dict"
    THEN LET here == SelectSeq(v.kv, LAMBDA e : IsPriceKey(e[1]))
             below == [i \in 1..Len(v.kv) |-> ValuesUnderPriceKeys(v.kv[i][2])]
         IN  [i \in 1..Len(here) |-> here[i][2]] \o Join(below, <<>>)
    ELSE IF v.t = "list"
         THEN Join([i \in 1..Len(v.xs) |-> ValuesUnderPriceKeys(v.xs[i])], <<>>)
         ELSE <<>>

IsPositiveNumber(v) == (v.t = "int" /\ v.n > 0) \/ (v.t = "float" /\ v.f > 0)

\* s without ',', the yen sign and '$'
WithoutCurrencyGlyphs(s) == SelectSeq(s, LAMBDA c : c \notin {",", Yen, "$"})

\* s spells a number: an optional '-' and one or more digits.
SpellsNumber(s) ==
    LET body == IF Len(s) > 0 /\ s[1] = "-" THEN Tail(s) ELSE s
    IN  Len(body) > 0 /\ \A i \in 1..Len(body) : body[i] \in {DigitChars[k] : k \in 1..10}

\* s spells a number greater than zero.
SpellsPositiveNumber(s) ==
    /\ SpellsNumber(s)
    /\ s[1] # "-"
    /\ \E i \in 1..Len(s) : s[i] # "0"

\* C6: the call returns a summary in which every positive number under a
\* price key at any depth is recorded (all_prices is at least as long as
\* their count) and no 0 or negative number is: every element is > 0.
C6_PositiveNumbersRecorded ==
    pc = "done" =>
        /\ price_info.kind = "return"
        /\ Len(price_info.value.all_prices)
              >= Len(SelectSeq(ValuesUnderPriceKeys(data), IsPositiveNumber))
        /\ \A i \in 1..Len(price_info.value.all_prices) : price_info.value.all_prices[i] > 0

\* The positive numbers under price keys were not recorded: the call raised.
C6_RaisedOnPositiveNumber ==
    /\ pc = "done"
    /\ price_info.kind = "raise"
    /\ Len(SelectSeq(ValuesUnderPriceKeys(data), IsPositiveNumber)) > 0

\* C7: only numbers and strings under price keys are recorded, and the walk
\* descends everywhere: all_prices has one element for each positive number
\* and each string spelling a positive number under a price key at any
\* depth, and none for a null, boolean, sequence or mapping there.
C7_OnlyNumbersAndStringsRecorded ==
    (pc = "done" /\ price_info.kind = "return") =>
        Len(price_info.value.all_prices)
          = Len(SelectSeq(ValuesUnderPriceKeys(data),
                          LAMBDA v : \/ IsPositiveNumber(v)
                                     \/ (v.t = "str"
                                         /\ SpellsPositiveNumber(WithoutCurrencyGlyphs(v.s)))))

\* A boolean under a price key was recorded.
C7_BooleanRecorded ==
    /\ pc = "done"
    /\ data = [t |-> "dict", kv |-> <<<<K_value, [t |-> "bool", b |-> TRUE]>>>>]
    /\ price_info.kind = "return"
    /\ price_info.value.all_prices = <<1>>

\* v without the entries, at any depth, whose key is a price key and whose
\* value is a string that does not spell a number once ',', the yen sign and
\* '$' are stripped.
RECURSIVE WithoutBadStrings(_)
WithoutBadStrings(v) ==
    IF v.t = "dict"
    THEN LET kept == SelectSeq(v.kv, LAMBDA e :
                        ~(IsPriceKey(e[1]) /\ e[2].t = "str"
                          /\ ~SpellsNumber(WithoutCurrencyGlyphs(e[2].s))))
         IN  [t |-> "dict",
              kv |-> [i \in 1..Len(kept) |-> <<kept[i][1], WithoutBadStrings(kept[i][2])>>]]
    ELSE IF v.t = "list"
         THEN [t |-> "list", xs |-> [i \in 1..Len(v.xs) |-> WithoutBadStrings(v.xs[i])]]
         ELSE v

\* What a lone string under a price key is to make of all_prices.
ExpectedFromString(s) ==
    CASE s = S_1234 -> <<1234>>
      [] s = S_dollar1000 -> <<1000>>
      [] s = S_abc -> <<>>
      [] s = S_minus5 -> <<>>
      [] s = S_yen0 -> <<>>

\* C8: a string under a price key is stripped of ',', the yen sign and '$'
\* and coerced: alone in a mapping, "1,234" records 1234.0, "$1,000" 1000.0,
\* and "abc", "-5" and a zero record nothing; and a string that fails the
\* coercion changes nothing else: the call ends exactly as it does on the
\* same input without those entries.
C8_StringCoercion ==
    pc = "done" =>
        /\ price_info = extract_price_info(WithoutBadStrings(data))
        /\ (/\ data.t = "dict"
            /\ Len(data.kv) = 1
            /\ IsPriceKey(data.kv[1][1])
            /\ data.kv[1][2].t = "str")
              => /\ price_info.kind = "return"
                 /\ price_info.value.all_prices = ExpectedFromString(data.kv[1][2].s)

\* C8 witness: the first entry holds a string that fails the coercion under
\* a price key, and the price of a later entry is recorded all the same.
C8_Witness ==
    /\ pc = "done"
    /\ data.t = "dict"
    /\ Len(data.kv) = 2
    /\ IsPriceKey(data.kv[1][1])
    /\ data.kv[1][2] = [t |-> "str", s |-> S_abc]
    /\ price_info.kind = "return"
    /\ price_info.value.all_prices = <<1234>>

\* C9: in the summary returned, when a price was recorded lowest_price is
\* the minimum and highest_price the maximum of all_prices and
\* lowest_price <= average_price <= highest_price; when none was recorded
\* the three statistics are None and all_prices is empty.
C9_SummaryStatistics ==
    (pc = "done" /\ price_info.kind = "return") =>
        LET info == price_info.value
            prices == info.all_prices
        IN  IF Len(prices) > 0
            THEN /\ info.lowest_price.t = "float"
                 /\ info.highest_price.t = "float"
                 /\ info.average_price.t = "float"
                 /\ \E i \in 1..Len(prices) : prices[i] = info.lowest_price.f
                 /\ \E i \in 1..Len(prices) : prices[i] = info.highest_price.f
                 /\ \A i \in 1..Len(prices) :
                       info.lowest_price.f <= prices[i] /\ prices[i] <= info.highest_price.f
                 /\ info.lowest_price.f <= info.average_price.f
                 /\ info.average_price.f <= info.highest_price.f
            ELSE /\ info.lowest_price = [t |-> "null"]
                 /\ info.highest_price = [t |-> "null"]
                 /\ info.average_price = [t |-> "null"]

\* The average of three equal prices came out below all of them.
C9_AverageBelowLowest ==
    /\ pc = "done"
    /\ price_info.kind = "return"
    /\ price_info.value.all_prices = <<1366, 1366, 1366>>
    /\ price_info.value.average_price.f < price_info.value.lowest_price.f

\* What of C9 does not rest on the rounding of the sum: the minimum, the
\* maximum, and the statistics being None exactly when nothing is recorded.
C9_MinMaxAndPresence ==
    (pc = "done" /\ price_info.kind = "return") =>
        LET info == price_info.value
            prices == info.all_prices
        IN  IF Len(prices) > 0
            THEN /\ \E i \in 1..Len(prices) : prices[i] = info.lowest_price.f
                 /\ \E i \in 1..Len(prices) : prices[i] = info.highest_price.f
                 /\ \A i \in 1..Len(prices) :
                       info.lowest_price.f <= prices[i] /\ prices[i] <= info.highest_price.f
                 /\ info.average_price.t = "float"
            ELSE /\ info.lowest_price = [t |-> "null"]
                 /\ info.highest_price = [t |-> "null"]
                 /\ info.average_price = [t |-> "null"]

(***************************************************************************)
(* Claims about search_trading_cards                                       *)
(***************************************************************************)
TrialOrder ==
    <<"https://snkrdunk.com/en/v1/trading-cards",
      "https://snkrdunk.com/en/v1/search",
      "https://snkrdunk.com/en/v1/products/search">>

\* C10: the GET requests go to trading-cards, search, products/search in
\* that order, one each, and a request is sent only after every earlier one
\* failed; the call never raises; it returns success with the decoded
\* response of the first endpoint whose call succeeds, tagged with that
\* endpoint's URL; it returns failure only after all three calls failed,
\* with exactly three errors, one per endpoint in trial order.
C10_SequentialFallback ==
    /\ Len(http_calls) <= Len(TrialOrder)
    /\ \A i \in 1..Len(http_calls) :
          /\ http_calls[i].url = TrialOrder[i]
          /\ i < Len(http_calls) => http_calls[i].ended = "raised"
    /\ pc # "done" => search_result = [t |-> "unset"]
    /\ pc = "done" =>
          /\ search_result.kind = "return"
          /\ IF search_result.value.success
             THEN /\ http_calls[Len(http_calls)].ended = "returned"
                  /\ search_result.value.endpoint = TrialOrder[Len(http_calls)]
                  /\ search_result.value.data = response.body.value
                  /\ Len(errors) = Len(http_calls) - 1
             ELSE /\ Len(http_calls) = Len(TrialOrder)
                  /\ \A i \in 1..Len(http_calls) : http_calls[i].ended = "raised"
                  /\ Len(search_result.value.errors) = Len(TrialOrder)
                  /\ \A i \in 1..Len(TrialOrder) :
                        search_result.value.errors[i].url = TrialOrder[i]

\* C10 witness: the first two endpoints failed, one without a response and
\* one with an error status, and the third succeeded and is returned.
C10_Witness ==
    /\ pc = "done"
    /\ search_result.kind = "return"
    /\ search_result.value.success
    /\ search_result.value.endpoint = "https://snkrdunk.com/en/v1/products/search"
    /\ Len(errors) = 2
    /\ errors[1].error = "Timeout"
    /\ errors[2].error = "HTTPError"

(***************************************************************************)
(* The script of snd.py (src/snd.py 207-542).  Streamlit runs the script   *)
(* from top to bottom once per interaction: a button returns True only in  *)
(* the run its click started, st.session_state lasts from run to run,      *)
(* st.stop() ends the run, st.rerun() ends it and starts the next one;     *)
(* both leave by an exception that is not an Exception, so no handler of   *)
(* the script catches them.                                                *)
(***************************************************************************)
\* What the network does to one GET: no response (requests.get raises exc),
\* or a response with a status and a body.
Networks(bodies) ==
    {[arrives |-> FALSE, exc |-> e] : e \in TransportErrors}
    \cup {[arrives |-> TRUE, status_code |-> st, body |-> b] : st \in StatusCodes, b \in bodies}

\* get_json(url, params): how the call ends when the network does net
get_json(net) ==
    IF ~net.arrives THEN Raised(net.exc)
    ELSE IF net.status_code >= 400 THEN Raised("HTTPError")
    ELSE IF net.body.json THEN Returned(net.body.value)
    ELSE Raised("JSONDecodeError")

\* The buttons of the page, by key.
SearchButton == [kind |-> "search", idx |-> 0]

BackButton == [kind |-> "back", idx |-> 0]

\* The run was started by something else than a button: a changed input, the
\* first load, st.rerun().
NoClick == [kind |-> "none", idx |-> 0]

SearchModes == {"keyword", "card_id"}

\* What the user has typed into the Card ID input.
CardIdInputs ==
    {JStr(<<"1", "3", "5", "2", "3", "2">>), JStr(<<" ", "7">>), JStr(<<" ">>), JStr(<<>>)}

\* A strip that leaves the blanks in place.
LStrip_KeepsBlanks(s) == s

\* card_id.strip(), without the characters in front
RECURSIVE LStrip(_)
LStrip(s) == IF Len(s) > 0 /\ Head(s) = " " THEN LStrip(Tail(s)) ELSE s

\* bool(v), for what extract_card_id returns: None or a str
Truthy(v) == v.t = "str" /\ Len(v.s) > 0

\* cards[:n]
FirstItems(xs, n) == SubSeq(xs, 1, IF Len(xs) < n THEN Len(xs) ELSE n)

\* for idx, card in enumerate(...): the loop over the cards xs from the i-th
\* on; the button of a card has the key kind_(i + offset).  card.get raises
\* AttributeError for a card that is no dict; a card with an id gets a
\* button, and the button that was clicked stores the id and calls
\* st.rerun().  shown is the set of buttons on the page so far.
RECURSIVE CardLoop(_, _, _, _, _)
CardLoop(xs, i, kind, offset, shown) ==
    IF i > Len(xs) THEN [ended |-> "complete", buttons |-> shown, selected |-> Unset]
    ELSE IF ~IsDict(xs[i])
    THEN [ended |-> "raise", buttons |-> shown, selected |-> Unset]
    ELSE LET id == extract_card_id(xs[i]).value
             key == [kind |-> kind, idx |-> i + offset]
         IN  IF Truthy(id)
             THEN IF widgets.clicked = key
                  THEN [ended |-> "rerun", buttons |-> shown \cup {key}, selected |-> id]
                  ELSE CardLoop(xs, i + 1, kind, offset, shown \cup {key})
             ELSE CardLoop(xs, i + 1, kind, offset, shown)

\* Bodies of the responses of used-listings, related-single-cards and the
\* card detail.
UsedBodies ==
    {[json |-> TRUE, value |-> v] :
        v \in {JDict(<<<<K_streetwears, StreetwearList>>>>), JDict(<<<<K_price, JInt(HugeInt)>>>>),
               ListEmpty}}
    \cup {[json |-> FALSE]}

RelatedBodies ==
    {[json |-> TRUE, value |-> v] :
        v \in {JDict(<<<<K_items, ListBA>>>>), JDict(<<<<K_items, ListNullB>>>>), JNull}}
    \cup {[json |-> FALSE]}

DetailBodies == {[json |-> TRUE, value |-> v] : v \in {CardB, JNull}} \cup {[json |-> FALSE]}

\* An entry of the log of a run: the call and how it ended.
Call(name, ended) == [call |-> name, ended |-> ended.kind]

\* The first page load: nothing in the session state, no run yet.
InitRun ==
    /\ pc = "idle"
    /\ NoRun
    /\ NoSearch
    /\ NoFetch
    /\ response_data = Unset
    /\ cards = Unset
    /\ card_item = Unset
    /\ extracted_id = Unset
    /\ data = Unset
    /\ price_info = Unset

\* The run ends here: by the end of the script ("complete"), st.stop()
\* ("stop"), st.rerun() ("rerun"), an exception no handler of the script
\* catches ("exception") or one the handlers of lines 528-534 catch
\* ("handled").
EndRun(how) ==
    /\ run_pc' = "idle"
    /\ run_end' = how

\* An interaction starts a run: the user has set the inputs and clicked
\* one of the buttons on the page, or none; after st.rerun() the run starts
\* by itself with the inputs as they were.  The sidebar (lines 213-318)
\* creates the inputs of the chosen mode and the search button.
StartRun ==
    /\ run_pc = "idle"
    /\ IF run_end = "rerun"
       THEN widgets' = [widgets EXCEPT !.clicked = NoClick]
       ELSE \E mode \in SearchModes, click \in rendered \cup {NoClick} :
               \/ /\ mode = "keyword"
                  /\ \E kw \in Keywords :
                        widgets' = [search_mode |-> mode, keyword |-> kw, card_id |-> Unset,
                                    clicked |-> click]
               \/ /\ mode = "card_id"
                  /\ \E id \in CardIdInputs :
                        widgets' = [search_mode |-> mode, keyword |-> Unset, card_id |-> id,
                                    clicked |-> click]
    /\ run_pc' = "main"
    /\ rendered' = {SearchButton}
    /\ run_log' = <<>>
    /\ run_end' = "running"
    /\ pc' = "idle"
    /\ keyword' = Unset
    /\ config_idx' = 0
    /\ errors' = <<>>
    /\ response' = Unset
    /\ http_calls' = <<>>
    /\ search_result' = Unset
    /\ response_data' = Unset
    /\ cards' = Unset
    /\ data' = Unset
    /\ price_info' = Unset
    /\ UNCHANGED <<session_state, idVars, fetchVars>>

\* if search_button: (lines 321-325 and 410-414) the keyword mode calls
\* search_trading_cards, the Card ID mode stops on a blank id and selects
\* any other.
SearchPressed ==
    /\ run_pc = "main"
    /\ IF widgets.clicked = SearchButton /\ widgets.search_mode = "keyword"
       THEN /\ run_pc' = "search"
            /\ pc' = "get"
            /\ keyword' = widgets.keyword
            /\ config_idx' = 1
            /\ UNCHANGED <<session_state, run_end>>
       ELSE /\ IF widgets.clicked = SearchButton
               THEN IF LStrip(widgets.card_id.s) = <<>>
                    THEN /\ EndRun("stop")
                         /\ UNCHANGED session_state
                    ELSE /\ session_state' = widgets.card_id
                         /\ run_pc' = "detail"
                         /\ UNCHANGED run_end
               ELSE /\ run_pc' = "detail"
                    /\ UNCHANGED <<session_state, run_end>>
            /\ UNCHANGED <<pc, keyword, config_idx>>
    /\ UNCHANGED <<errors, response, http_calls, search_result, widgets, rendered, run_log,
                   cardsVars, idVars, priceVars, fetchVars>>

\* search_trading_cards has returned (lines 327-408): a failed search and a
\* search without cards stop the run, the cards found are put on the page.
SearchReturns ==
    /\ run_pc = "search"
    /\ pc = "done"
    /\ pc' = "idle"
    /\ IF search_result.kind = "raise"
       THEN /\ EndRun("exception")
            /\ run_log' = Append(run_log, Call("search_trading_cards", search_result))
            /\ UNCHANGED <<session_state, rendered, cardsVars>>
       ELSE IF ~search_result.value.success
       THEN /\ EndRun("stop")
            /\ run_log' = Append(run_log, Call("search_trading_cards", search_result))
            /\ UNCHANGED <<session_state, rendered, cardsVars>>
       ELSE LET found == extract_cards_from_response(search_result.value.data)
                loop == CardLoop(FirstItems(found.xs, 10), 1, "detail", 0, rendered)
            IN  /\ response_data' = search_result.value.data
                /\ cards' = found
                /\ run_log' = run_log \o <<Call("search_trading_cards", search_result),
                                           Call("extract_cards_from_response", Returned(found))>>
                /\ IF Len(found.xs) = 0
                   THEN /\ EndRun("stop")
                        /\ UNCHANGED <<session_state, rendered>>
                   ELSE /\ rendered' = loop.buttons
                        /\ CASE loop.ended = "raise" ->
                                   /\ EndRun("exception")
                                   /\ UNCHANGED session_state
                             [] loop.ended = "rerun" ->
                                   /\ EndRun("rerun")
                                   /\ session_state' = loop.selected
                             [] OTHER ->
                                   /\ run_pc' = "detail"
                                   /\ UNCHANGED <<session_state, run_end>>
    /\ UNCHANGED <<searchVars, widgets, idVars, priceVars, fetchVars>>

\* if 'selected_card_id' in st.session_state: (lines 417-428) the detail
\* view with its back button; without a selection the script is at its end.
DetailView ==
    /\ run_pc = "detail"
    /\ IF session_state = Unset
       THEN /\ EndRun("complete")
            /\ UNCHANGED <<session_state, rendered>>
       ELSE /\ rendered' = rendered \cup {BackButton}
            /\ IF widgets.clicked = BackButton
               THEN /\ session_state' = Unset
                    /\ EndRun("rerun")
               ELSE /\ run_pc' = "tab1"
                    /\ UNCHANGED <<session_state, run_end>>
    /\ UNCHANGED <<pc, searchVars, widgets, run_log, cardsVars, idVars, priceVars, fetchVars>>

\* with tab1: (lines 433-466) get_used_listings, then extract_price_info;
\* an exception of either goes to the handlers of lines 528-534.
PriceTab ==
    /\ run_pc = "tab1"
    /\ \E net \in Networks(UsedBodies) :
          LET used_data == get_json(net)
          IN  IF used_data.kind = "raise"
              THEN /\ run_log' = Append(run_log, Call("get_used_listings", used_data))
                   /\ EndRun("handled")
                   /\ UNCHANGED priceVars
              ELSE /\ data' = used_data.value
                   /\ price_info' = extract_price_info(used_data.value)
                   /\ run_log' = run_log \o <<Call("get_used_listings", used_data),
                                              Call("extract_price_info", price_info')>>
                   /\ IF price_info'.kind = "raise"
                      THEN EndRun("handled")
                      ELSE /\ run_pc' = "tab2"
                           /\ UNCHANGED run_end
    /\ UNCHANGED <<pc, searchVars, session_state, widgets, rendered, cardsVars, idVars,
                   fetchVars>>

\* with tab2: (lines 468-498) get_related_single_cards, then
\* extract_cards_from_response and a button for each of the first nine cards
\* with an id.
RelatedTab ==
    /\ run_pc = "tab2"
    /\ \E net \in Networks(RelatedBodies) :
          LET related_data == get_json(net)
          IN  IF related_data.kind = "raise"
              THEN /\ run_log' = Append(run_log, Call("get_related_single_cards", related_data))
                   /\ EndRun("handled")
                   /\ UNCHANGED <<session_state, rendered, cardsVars>>
              ELSE LET related_cards == extract_cards_from_response(related_data.value)
                       loop == CardLoop(FirstItems(related_cards.xs, 9), 1, "related", -1,
                                        rendered)
                   IN  /\ response_data' = related_data.value
                       /\ cards' = related_cards
                       /\ run_log' =
                             run_log \o <<Call("get_related_single_cards", related_data),
                                          Call("extract_cards_from_response",
                                               Returned(related_cards))>>
                       /\ rendered' = loop.buttons
                       /\ CASE loop.ended = "raise" ->
                                  /\ EndRun("handled")
                                  /\ UNCHANGED session_state
                            [] loop.ended = "rerun" ->
                                  /\ EndRun("rerun")
                                  /\ session_state' = loop.selected
                            [] OTHER ->
                                  /\ run_pc' = "tab3"
                                  /\ UNCHANGED <<session_state, run_end>>
    /\ UNCHANGED <<pc, searchVars, widgets, idVars, priceVars, fetchVars>>

\* with tab3: (lines 500-526) get_card_detail inside its own try; the
\* script then runs to its end.
DetailTab ==
    /\ run_pc = "tab3"
    /\ \E net \in Networks(DetailBodies) :
          run_log' = Append(run_log, Call("get_card_detail", get_json(net)))
    /\ EndRun("complete")
    /\ UNCHANGED <<pc, searchVars, session_state, widgets, rendered, cardsVars, idVars,
                   priceVars, fetchVars>>

NextRun ==
    \/ StartRun
    \/ SearchPressed
    \/ RequestsGetFails
    \/ RequestsGetResponds
    \/ RaiseForStatus
    \/ DecodeJson
    \/ SearchReturns
    \/ DetailView
    \/ PriceTab
    \/ RelatedTab
    \/ DetailTab

SpecRun == InitRun /\ [][NextRun]_vars

(***************************************************************************)
(* Claims about the script run                                             *)
(***************************************************************************)
DetailFetches == <<"get_used_listings", "get_related_single_cards", "get_card_detail">>

\* The fetches of the detail view in the log of the current run, in order.
DetailFetchLog ==
    SelectSeq(run_log, LAMBDA e : \E k \in 1..Len(DetailFetches) : e.call = DetailFetches[k])

\* The extraction passes in the log of the current run.
ExtractionLog ==
    SelectSeq(run_log,
              LAMBDA e : e.call \in {"extract_cards_from_response", "extract_price_info"})

\* The GET requests the current run has sent so far.
GetsInRun == Len(http_calls) + Len(DetailFetchLog)

\* The extraction a fetch that returned is followed by.
ExtractionAfter(call) ==
    CASE call = "search_trading_cards" -> "extract_cards_from_response"
      [] call = "get_used_listings" -> "extract_price_info"
      [] call = "get_related_single_cards" -> "extract_cards_from_response"
      [] OTHER -> "none"

\* The search of the current run has come back with a success.
SearchSucceeded ==
    /\ search_result # Unset
    /\ search_result.kind = "return"
    /\ search_result.value.success

\* C11 as stated: a script run sends at most one GET request and makes at
\* most one extraction pass, whatever the search mode, the search button and
\* the selected card of the session state are.
C11_AtMostOneGetPerRun == GetsInRun <= 1 /\ Len(ExtractionLog) <= 1

\* C11, amended: a script run sends its GET requests one after the other, at
\* most six of them.  At most three are the endpoint trials of
\* search_trading_cards, sent only in a run started by the search button in
\* keyword mode.  At most three are those of the detail view, one each to
\* used-listings, related-single-cards and the card detail in that order,
\* sent only with a selected card in the session state and never after a
\* search that failed or found no cards.  A run started by the search button
\* in Card ID mode with a blank id, and a run without the search button and
\* without a selected card, send none.  A run makes at most three extraction
\* passes: every extraction comes right after the fetch whose response it
\* reads, and every successful search and every used-listings and
\* related-cards fetch that returns a response is followed by its extraction
\* before the next fetch.
C11_GetsPerRun ==
    run_end # "none" =>
        /\ Len(http_calls) <= Len(TrialOrder)
        /\ Len(http_calls) > 0 =>
              widgets.clicked = SearchButton /\ widgets.search_mode = "keyword"
        /\ Len(DetailFetchLog) <= Len(DetailFetches)
        /\ \A i \in 1..Len(DetailFetchLog) : DetailFetchLog[i].call = DetailFetches[i]
        /\ Len(DetailFetchLog) > 0 =>
              /\ session_state # Unset
              /\ Len(http_calls) > 0 =>
                    /\ SearchSucceeded
                    /\ Len(extract_cards_from_response(search_result.value.data).xs) > 0
        /\ ( /\ widgets.clicked = SearchButton
             /\ widgets.search_mode = "card_id"
             /\ \A i \in 1..Len(widgets.card_id.s) : widgets.card_id.s[i] = " " )
           => GetsInRun = 0
        /\ (widgets.clicked # SearchButton /\ session_state = Unset) => GetsInRun = 0
        /\ GetsInRun <= 6
        /\ Len(ExtractionLog) <= 3
        /\ \A i \in 1..Len(run_log) :
              /\ ( /\ ExtractionAfter(run_log[i].call) # "none"
                   /\ run_log[i].ended = "return"
                   /\ run_log[i].call = "search_trading_cards" => SearchSucceeded )
                 => /\ i < Len(run_log)
                    /\ run_log[i + 1].call = ExtractionAfter(run_log[i].call)
              /\ run_log[i].call \in {"extract_cards_from_response", "extract_price_info"}
                 => /\ i > 1
                    /\ run_log[i - 1].ended = "return"
                    /\ ExtractionAfter(run_log[i - 1].call) = run_log[i].call

\* C11 witness: one run has ended after six GET requests and three
\* extraction passes: two failed endpoint trials and a third that found
\* cards, then the three fetches of the detail view.
C11_Witness ==
    /\ run_end = "complete"
    /\ Len(http_calls) = 3
    /\ Len(DetailFetchLog) = 3
    /\ Len(ExtractionLog) = 3
    /\ GetsInRun = 6

(***************************************************************************)
(* The fetching operations, each called on its own: search_trading_cards,  *)
(* get_used_listings, get_related_single_cards and get_card_detail         *)
(* (src/snd.py 28-115), SnkrdunkScraper.search_cards and                   *)
(* SnkrdunkScraper.get_recent_prices (src/scraper.py 15-69).               *)
(***************************************************************************)
\* for config in endpoints: from the i-th endpoint on, nets[i] being what the
\* network does to the GET of the i-th endpoint and errs the errors so far.
RECURSIVE SearchTrials(_, _, _, _)
SearchTrials(kw, nets, i, errs) ==
    IF i > Len(endpoints(kw)) THEN Returned([success |-> FALSE, errors |-> errs])
    ELSE LET config == endpoints(kw)[i]
             result == get_json(nets[i])
         IN  IF result.kind = "return"
             THEN Returned([success |-> TRUE, data |-> result.value, endpoint |-> config.url])
             ELSE IF Catches(result.exc)
             THEN SearchTrials(kw, nets, i + 1,
                               Append(errs, [url |-> config.url, params |-> config.params,
                                             error |-> result.exc]))
             ELSE result

search_trading_cards(kw, nets) == SearchTrials(kw, nets, 1, <<>>)

\* return get_json(url, params=params)
get_used_listings(net) == get_json(net)

get_related_single_cards(net) == get_json(net)

\* return get_json(url)
get_card_detail(net) == get_json(net)

\* SnkrdunkScraper.search_cards: every exception inside the try, those of the
\* request and those of reading the response, ends in print and return [].
search_cards(net) ==
    LET K_thumbnailUrl == <<"t", "h", "u", "m", "b", "n", "a", "i", "l", "U", "r", "l">>
        K_thumbnail == <<"t", "h", "u", "m", "b", "n", "a", "i", "l">>
        K_min_price == <<"m", "i", "n", "_", "p", "r", "i", "c", "e">>
        K_url == <<"u", "r", "l">>
        base_url == <<"h", "t", "t", "p", "s", ":", "/", "/", "s", "n", "k", "r", "d",
                      "u", "n", "k", ".", "c", "o", "m", "/", "e", "n">>
        Get(d, key) == IF HasKey(d, key) THEN GetItem(d, key) ELSE JNull
        card(item) ==
            JDict(<<<<K_id, Get(item, K_id)>>,
                    <<K_name, Get(item, K_name)>>,
                    <<K_thumbnail, Get(item, K_thumbnailUrl)>>,
                    <<K_min_price, Get(item, K_minPrice)>>,
                    <<K_url, JStr(base_url \o <<"/", "t", "r", "a", "d", "i", "n", "g", "-", "c",
                                    "a", "r", "d", "s", "/">>
                                  \o PyStr(Get(item, K_id)))>>>>)
        caught == Returned(JList(<<>>))
    IN  IF ~net.arrives THEN caught
        ELSE IF net.status_code >= 400 THEN caught
        ELSE IF ~net.body.json THEN caught
        ELSE LET data_ == net.body.value
             IN  IF ~IsDict(data_) THEN caught
                 ELSE LET streetwears == IF HasKey(data_, K_streetwears)
                                         THEN GetItem(data_, K_streetwears)
                                         ELSE JList(<<>>)
                      IN  CASE streetwears.t = "list" ->
                                  IF \A i \in 1..Len(streetwears.xs) : IsDict(streetwears.xs[i])
                                  THEN Returned(JList([i \in 1..Len(streetwears.xs) |->
                                                          card(streetwears.xs[i])]))
                                  ELSE caught
                            [] streetwears.t = "dict" ->
                                  IF Len(streetwears.kv) = 0 THEN Returned(JList(<<>>))
                                  ELSE caught
                            [] streetwears.t = "str" ->
                                  IF Len(streetwears.s) = 0 THEN Returned(JList(<<>>))
                                  ELSE caught
                            [] OTHER -> caught

\* The first position from j on where s has a character outside chars.
RECURSIVE RunEnd(_, _, _)
RunEnd(s, j, chars) ==
    IF j <= Len(s) /\ s[j] \in chars THEN RunEnd(s, j + 1, chars) ELSE j

\* re.match of SOLD\s+US\s+\$([\d,]+) at position i of s: whether it matches,
\* the group and the position after the match.
MatchSold(s, i) ==
    LET Space == {" ", "\n", "\t"}
        Priced == {"0", "1", "2", "3", "4", "5", "6", "7", "8", "9", ","}
        Lit(j, word) == j + Len(word) - 1 <= Len(s) /\ SubSeq(s, j, j + Len(word) - 1) = word
        a == i + 4
        b == RunEnd(s, a, Space)
        c == b + 2
        d == RunEnd(s, c, Space)
        e == d + 1
        f == RunEnd(s, e, Priced)
    IN  IF /\ Lit(i, <<"S", "O", "L", "D">>)
           /\ b > a
           /\ Lit(b, <<"U", "S">>)
           /\ d > c
           /\ Lit(d, <<"$">>)
           /\ f > e
        THEN [matched |-> TRUE, group |-> SubSeq(s, e, f - 1), end |-> f]
        ELSE [matched |-> FALSE, group |-> <<>>, end |-> i]

\* re.findall(r"SOLD\s+US\s+\$([\d,]+)", s), from position i on
RECURSIVE FindAll(_, _)
FindAll(s, i) ==
    IF i > Len(s) THEN <<>>
    ELSE LET m == MatchSold(s, i)
         IN  IF m.matched THEN <<m.group>> \o FindAll(s, m.end) ELSE FindAll(s, i + 1)

\* SnkrdunkScraper.get_recent_prices: every exception inside the try, those
\* of the request and the ValueError of int(''), ends in print and return [].
get_recent_prices(net) ==
    LET caught == Returned(JList(<<>>))
    IN  IF ~net.arrives THEN caught
        ELSE IF net.status_code >= 400 THEN caught
        ELSE LET matches == FindAll(net.body.text, 1)
             IN  IF \E k \in 1..Len(matches) : RemoveChar(matches[k], ",") = <<>>
                 THEN caught
                 ELSE Returned(JList([k \in 1..Len(matches) |->
                                         JInt(DigitsToNat(RemoveChar(matches[k], ",")))]))

FetchOperations ==
    {"search_trading_cards", "get_used_listings", "get_related_single_cards",
     "get_card_detail", "search_cards", "get_recent_prices"}

\* What the network does to the GET requests of one call of op: one entry
\* for each endpoint of search_trading_cards, one entry for the others.
FetchNetworks(op) ==
    LET SearchBodies == {[json |-> TRUE, value |-> JDict(<<<<K_items, ListEmpty>>>>)],
                         [json |-> TRUE, value |-> JDict(<<<<K_items, ListA>>>>)],
                         [json |-> FALSE]}
        ScraperBodies ==
            {[json |-> TRUE, value |-> v] :
                v \in {JDict(<<<<K_streetwears, StreetwearList>>>>),
                       JDict(<<<<K_streetwears, ListEmpty>>>>),
                       JDict(<<<<K_streetwears, ListNullB>>>>),
                       JDict(<<<<K_streetwears, JNull>>>>),
                       JDict(<<<<K_items, ListA>>>>), JDict(<<>>), ListA, JNull}}
            \cup {[json |-> FALSE]}
        HtmlBodies ==
            {[json |-> FALSE, text |-> t] :
                t \in {<<"S", "O", "L", "D", " ", "U", "S", " ", "$", "7", "1">>,
                       <<"S", "O", "L", "D", " ", " ", "U", "S", "\n", "$", "1", ",",
                         "2", "3", "4", " ", "s", "o", "l", "d", " ", "S", "O", "L",
                         "D", " ", "U", "S", " ", "$", "5">>,
                       <<"n", "o", " ", "s", "a", "l", "e", "s", " ", "U", "S", " ",
                         "$", "9">>,
                       <<"S", "O", "L", "D", " ", "U", "S", " ", "$", ",">>,
                       <<>>}}
    IN  CASE op = "search_trading_cards" ->
                {<<a, b, c>> : a, b, c \in Networks(SearchBodies)}
          [] op = "search_cards" -> {<<a>> : a \in Networks(ScraperBodies)}
          [] op = "get_recent_prices" -> {<<a>> : a \in Networks(HtmlBodies)}
          [] OTHER -> {<<a>> : a \in Networks(Bodies \cup UsedBodies)}

\* How a call of op ends when the network does nets.
Fetch(op, nets) ==
    CASE op = "search_trading_cards" -> search_trading_cards("Pikachu", nets)
      [] op = "get_used_listings" -> get_used_listings(nets[1])
      [] op = "get_related_single_cards" -> get_related_single_cards(nets[1])
      [] op = "get_card_detail" -> get_card_detail(nets[1])
      [] op = "search_cards" -> search_cards(nets[1])
      [] op = "get_recent_prices" -> get_recent_prices(nets[1])

InitFetch ==
    /\ pc = "start"
    /\ operation \in FetchOperations
    /\ network \in FetchNetworks(operation)
    /\ outcome = Unset
    /\ NoRun
    /\ NoSearch
    /\ response_data = Unset
    /\ cards = Unset
    /\ card_item = Unset
    /\ extracted_id = Unset
    /\ data = Unset
    /\ price_info = Unset

CallFetch ==
    /\ pc = "start"
    /\ outcome' = Fetch(operation, network)
    /\ pc' = "done"
    /\ UNCHANGED <<operation, network, cardsVars, idVars, priceVars, searchVars, runVars>>

NextFetch == CallFetch

SpecFetch == InitFetch /\ [][NextFetch]_vars

(***************************************************************************)
(* Claims about the fetching operations                                    *)
(***************************************************************************)
\* The GET got no response, or one with an error status.
NetworkFailed(net) == ~net.arrives \/ net.status_code >= 400

\* The GET got a response the operation can read: the JSON operations need
\* a body that is JSON, get_recent_prices reads any text.
GoodResponse(op, net) ==
    /\ net.arrives
    /\ net.status_code < 400
    /\ op # "get_recent_prices" => net.body.json

\* Every GET of the call failed.
FetchFailed(nets) == \A i \in 1..Len(nets) : NetworkFailed(nets[i])

\* The network behaviours under which a call of op succeeds.
SuccessfulNetworks(op) ==
    {nets \in FetchNetworks(op) : \E i \in 1..Len(nets) : GoodResponse(op, nets[i])}

\* The outcome is one a successful call of op can have, too.
LooksLikeSuccess(op, result) == \E good \in SuccessfulNetworks(op) : Fetch(op, good) = result

\* C12: when every GET of a fetching operation fails (no response, or an
\* error status), the call ends, by return or by exception, in a way no
\* successful call of the same operation ends, the successful call with zero
\* items or zero prices included.
C12_FailuresDistinguishable ==
    (pc = "done" /\ FetchFailed(network)) => ~LooksLikeSuccess(operation, outcome)

\* C12, the part that holds: the failures of the four operations of snd.py
\* are told apart from every success, search_trading_cards by its success
\* flag and the other three by the exception they raise.
C12_SndFailuresDistinguishable ==
    ( /\ pc = "done"
      /\ FetchFailed(network)
      /\ operation \notin {"search_cards", "get_recent_prices"} )
    => /\ ~LooksLikeSuccess(operation, outcome)
       /\ IF operation = "search_trading_cards"
          THEN outcome.kind = "return" /\ ~outcome.value.success
          ELSE outcome.kind = "raise"

\* C12 witness: a scraper call whose GET failed has returned the empty list,
\* which is what the same call returns for a response without items or
\* prices.
C12_FailureReturnedAsEmpty ==
    /\ pc = "done"
    /\ operation \in {"search_cards", "get_recent_prices"}
    /\ FetchFailed(network)
    /\ outcome = Returned(JList(<<>>))
    /\ LooksLikeSuccess(operation, outcome)

====
